---- MODULE Spec2Model ----
(***************************************************************************)
(* Model of syncd/scripts/persistent_mloop.py: the persistent MLOOP        *)
(* configuration script.  One process run is main(); runs follow each      *)
(* other and share only the persisted state file.  External tools          *)
(* (sonic-db-cli, saisdkdump, sx_api_port_phys_loopback.py,                 *)
(* sx_api_port_tx_signal_set.py) are collaborators whose outcomes are       *)
(* chosen nondeterministically at each invocation.                          *)
(*                                                                          *)
(* Text is modelled at token granularity: the SDK dump is a sequence of    *)
(* whitespace-separated words with "\n" as the line separator, the JSON    *)
(* state file is the sequence of JSON tokens json.dump emits.              *)
(***************************************************************************)
EXTENDS Integers, Sequences, FiniteSets, TLC

VARIABLES
    pc,               \* position of the run inside main()
    args,             \* argparse result: ports, port_range, loopback_type
    retries,          \* main(): readiness retries
    port_translation, \* MloopConfig.port_translation: ordered <<name, id>> pairs
    ports,            \* MloopConfig.ports
    loopback_type,    \* MloopConfig.loopback_type
    queue,            \* the sequence the running for-loop iterates over
    idx,              \* index of the next element of queue
    cur,              \* config_port_to_mloop locals: logical_port, configured, retries
    dump_lines,       \* the snapshot of SAISDKDUMP_PATH read by this run
    file,             \* the persisted state file: exists, content
    out,              \* error diagnostics printed by this run
    nQueries,         \* history: readiness queries made by this run
    sawReady,         \* history: some readiness query of this run reported ready
    lbCalls,          \* history: set-loopback invocations of this run, <<log_port, type>>
    txLog,            \* history: outcomes of the TX-signal invocations for the current port
    gaveUp,           \* history: indexes in lbCalls of ports whose retries were exhausted
    examined,         \* history: table entries examined by the last parse_range
    fileAtStart,      \* history: content of the state file when the run started
    writes,           \* history: writes to the state file by this run
    lastSaved         \* history: what the last save_config saved, and the table and
                      \* the set-loopback invocations of the run that saved it

vars == <<pc, args, retries, port_translation, ports, loopback_type, queue, idx,
          cur, dump_lines, file, out, nQueries, sawReady, lbCalls, txLog,
          gaveUp, examined, fileAtStart, writes, lastSaved>>

----------------------------------------------------------------------------
(* Program constants *)

MAX_RETRIES == 10

None == "None"

(* Bounds of the model *)

MaxPorts == 2          \* longest --ports list

(* Inputs *)

ListNames == {"Ethernet12", "Ethernet99"}
RangeNames == {"Ethernet4", "Ethernet8", "Ethernet12", "Ethernet99"}
LoopbackTypes == {0, 12}

NL == "\n"

----------------------------------------------------------------------------
(* Generic sequence helpers *)

\* Python's str.find on tokens: 0-based index of the first occurrence, -1 if none
RECURSIVE FindFrom(_, _, _)
FindFrom(s, tok, i) ==
    IF i > Len(s) THEN -1
    ELSE IF s[i] = tok THEN i - 1
    ELSE FindFrom(s, tok, i + 1)

find(s, tok) == FindFrom(s, tok, 1)

\* Python's s[a:b] for 0-based a, b, negative indices counted from the end
PyIndex(n, len) ==
    IF n < 0 THEN (IF n + len < 0 THEN 0 ELSE n + len)
    ELSE (IF n > len THEN len ELSE n)

slice(s, a, b) ==
    LET lo == PyIndex(a, Len(s))
        hi == PyIndex(b, Len(s))
    IN  IF lo >= hi THEN <<>> ELSE SubSeq(s, lo + 1, hi)

\* Python's s[n:]
drop(s, n) == IF n >= Len(s) THEN <<>> ELSE SubSeq(s, n + 1, Len(s))

\* str.split('\n'): the lines between the separators (always at least one line)
RECURSIVE SplitLines(_, _, _)
SplitLines(s, i, line) ==
    IF i > Len(s) THEN <<line>>
    ELSE IF s[i] = NL THEN <<line>> \o SplitLines(s, i + 1, <<>>)
    ELSE SplitLines(s, i + 1, Append(line, s[i]))

split_lines(s) == SplitLines(s, 1, <<>>)

----------------------------------------------------------------------------
(* Port translation table: build_translation_dict and port_sorting *)

\* the numeric suffix int(name[len("Ethernet"):]) of the names of the model
EthernetSuffix ==
    [n \in {"Ethernet0", "Ethernet4", "Ethernet8", "Ethernet12", "Ethernet99"} |->
        CASE n = "Ethernet0" -> 0
          [] n = "Ethernet4" -> 4
          [] n = "Ethernet8" -> 8
          [] n = "Ethernet12" -> 12
          [] n = "Ethernet99" -> 99]

\* port_sorting(port): port is an item <<name, id>> of the dict
port_sorting(port) ==
    IF port[1] \in DOMAIN EthernetSuffix THEN EthernetSuffix[port[1]] ELSE 0

\* dict[key] = value: a new key goes last, an existing key keeps its place
DictSet(d, key, value) ==
    IF \E i \in 1..Len(d) : d[i][1] = key
    THEN [i \in 1..Len(d) |-> IF d[i][1] = key THEN <<key, value>> ELSE d[i]]
    ELSE Append(d, <<key, value>>)

\* dict.get(key): the value, or None
DictGet(d, key) ==
    IF \E i \in 1..Len(d) : d[i][1] = key
    THEN d[CHOOSE i \in 1..Len(d) : d[i][1] = key][2]
    ELSE None

DictKeys(d) == {d[i][1] : i \in 1..Len(d)}

\* the loop over port_table: rows with fewer than 3 fields are skipped
RECURSIVE FillDict(_, _, _)
FillDict(lines, i, d) ==
    IF i > Len(lines) THEN d
    ELSE IF Len(lines[i]) < 3 THEN FillDict(lines, i + 1, d)
    ELSE FillDict(lines, i + 1, DictSet(d, lines[i][2], lines[i][3]))

\* sorted(items, key=port_sorting): stable insertion sort
RECURSIVE InsertSorted(_, _)
InsertSorted(s, item) ==
    IF s = <<>> THEN <<item>>
    ELSE IF port_sorting(s[Len(s)]) <= port_sorting(item) THEN Append(s, item)
    ELSE Append(InsertSorted(SubSeq(s, 1, Len(s) - 1), item), s[Len(s)])

RECURSIVE SortItems(_, _, _)
SortItems(items, i, acc) ==
    IF i > Len(items) THEN acc
    ELSE SortItems(items, i + 1, InsertSorted(acc, items[i]))

\* the dict left in insertion order: line 77 without the sort
sorted_insertion_order(items) == items

sorted(items) == SortItems(items, 1, <<>>)

build_translation_dict(text) ==
    LET start_index == find(text, "netdev_dump")
        end_index == find(text, "cmd_ifc_dump")
        port_table == drop(split_lines(slice(text, start_index, end_index)), 4)
        \* each stage is bound as a value, so that it is evaluated once
        port_translation_dict == {FillDict(t, 1, <<>>) : t \in {port_table}}
    IN  CHOOSE r \in {sorted(d) : d \in port_translation_dict} : TRUE

\* Snapshots the saisdkdump collaborator may write: text before the section, the
\* start marker, the rest of the 4-line header, the rows, the end marker.
DumpHeader ==
    <<"SDK", "dump", NL,
      "netdev_dump", NL,
      "==", NL,
      "idx", "netdev", "log_port", NL,
      "--", NL>>

DumpTrailer == <<"cmd_ifc_dump", NL, "1", "ifc0", "0xdead", NL>>

DumpUnsorted ==
    DumpHeader \o
    <<"1", "Ethernet8", "0x10900", NL,
      "2", "Ethernet0", "0x10100", NL,
      "3", "Ethernet12", "0x10d00", NL,
      "4", "Ethernet4", "0x10500", NL>> \o DumpTrailer

DumpDuplicate ==
    DumpHeader \o
    <<"1", "Ethernet4", "0x10500", "up", NL,
      "2", "Ethernet8", NL,
      NL,
      "3", "Ethernet8", "0x10900", NL,
      "4", "swid0_eth", "0x1ffff", NL,
      "5", "Ethernet4", "0x10501", NL>> \o DumpTrailer

DumpNoRows == DumpHeader \o DumpTrailer

\* a snapshot whose section is not closed by the end marker, and one whose
\* section is not opened by the start marker
DumpNoEndMarker ==
    DumpHeader \o
    <<"1", "Ethernet0", "0x10100", NL,
      "ifc_dump", NL,
      "1", "ifc0", "0xdead", NL>>

DumpNoStartMarker ==
    <<"SDK", "dump", NL,
      "==", NL,
      "idx", "netdev", "log_port", NL,
      "--", NL,
      "1", "Ethernet4", "0x10500", NL>> \o DumpTrailer

Dumps == {DumpUnsorted, DumpDuplicate, DumpNoRows, DumpNoEndMarker, DumpNoStartMarker}

----------------------------------------------------------------------------
(* Range resolution: MloopConfig.parse_range *)

\* the for loop with the break of lines 124-125 taken only once the start name
\* has been seen: an end name met first is reported and the scan goes on
RECURSIVE ScanRange_past_early_end(_, _, _, _)
ScanRange_past_early_end(table, port_range, i, st) ==
    IF i > Len(table) THEN st
    ELSE
        LET port == table[i][1]
            logical_port == table[i][2]
            found_first == st.found_first \/ port = port_range[1]
            found_last == st.found_last \/ port = port_range[2]
            collect == found_first /\ ~found_last
            st2 == [found_first |-> found_first,
                    found_last |-> found_last,
                    logical_ports |-> IF collect THEN Append(st.logical_ports, logical_port)
                                      ELSE st.logical_ports,
                    ports |-> IF collect THEN Append(st.ports, port) ELSE st.ports,
                    end_before_start |-> st.end_before_start
                                         \/ (~collect /\ found_last /\ ~found_first),
                    examined |-> st.examined + 1]
        IN  IF found_last /\ found_first THEN st2
            ELSE ScanRange_past_early_end(table, port_range, i + 1, st2)

\* one pass of the for loop over port_translation.items(), from entry i on;
\* st holds the locals, the names appended to self.ports and what was printed
RECURSIVE ScanRange(_, _, _, _)
ScanRange(table, port_range, i, st) ==
    IF i > Len(table) THEN st
    ELSE
        LET port == table[i][1]
            logical_port == table[i][2]
            found_first == st.found_first \/ port = port_range[1]
            found_last == st.found_last \/ port = port_range[2]
            collect == found_first /\ ~found_last
            st2 == [found_first |-> found_first,
                    found_last |-> found_last,
                    logical_ports |-> IF collect THEN Append(st.logical_ports, logical_port)
                                      ELSE st.logical_ports,
                    ports |-> IF collect THEN Append(st.ports, port) ELSE st.ports,
                    end_before_start |-> st.end_before_start
                                         \/ (~collect /\ found_last /\ ~found_first),
                    examined |-> st.examined + 1]
        IN  IF found_last THEN st2 ELSE ScanRange(table, port_range, i + 1, st2)

\* parse_range without lines 127-129: a range whose end is never found is
\* answered with what was collected
parse_range_unchecked_end(table, port_range) ==
    LET st == ScanRange(table, port_range, 1,
                        [found_first |-> FALSE, found_last |-> FALSE,
                         logical_ports |-> <<>>, ports |-> <<>>,
                         end_before_start |-> FALSE, examined |-> 0])
    IN  [is_none |-> IF st.logical_ports # <<>> THEN FALSE ELSE TRUE,
         logical_ports |-> st.logical_ports,
         ports |-> st.ports,
         found_first |-> st.found_first,
         found_last |-> st.found_last,
         end_before_start |-> st.end_before_start,
         examined |-> st.examined]

\* is_none: the function returns None; logical_ports: the list it returns
\* otherwise; ports: the names appended to self.ports; then the locals at the
\* end of the scan
parse_range(table, port_range) ==
    LET st == ScanRange(table, port_range, 1,
                        [found_first |-> FALSE, found_last |-> FALSE,
                         logical_ports |-> <<>>, ports |-> <<>>,
                         end_before_start |-> FALSE, examined |-> 0])
    IN  [is_none |-> IF st.found_first /\ ~st.found_last THEN TRUE
                     ELSE IF st.logical_ports # <<>> THEN FALSE
                     ELSE TRUE,
         logical_ports |-> st.logical_ports,
         ports |-> st.ports,
         found_first |-> st.found_first,
         found_last |-> st.found_last,
         end_before_start |-> st.end_before_start,
         examined |-> st.examined]

----------------------------------------------------------------------------
(* State store encoding: json.dump and json.load on the state file *)

DigitChars == <<"0", "1", "2", "3", "4", "5", "6", "7", "8", "9">>

RECURSIVE Digits(_)
Digits(n) ==
    IF n < 10 THEN <<DigitChars[n + 1]>>
    ELSE Append(Digits(n \div 10), DigitChars[(n % 10) + 1])

\* the JSON text of an int
EncodeInt(n) == IF n < 0 THEN <<"-">> \o Digits(0 - n) ELSE Digits(n)

\* the JSON text of a list of strings: ["a", "b"]
RECURSIVE EncodeItems(_, _)
EncodeItems(names, i) ==
    IF i > Len(names) THEN <<>>
    ELSE (IF i > 1 THEN <<",">> ELSE <<>>) \o <<"\"", names[i], "\"">>
         \o EncodeItems(names, i + 1)

EncodeList(names) == <<"[">> \o EncodeItems(names, 1) \o <<"]">>

\* json.dump({"ports": ports, "loopback_type": loopback_type}, ports_file)
json_dump(p, lt) ==
    <<"{", "\"", "ports", "\"", ":">> \o EncodeList(p) \o
    <<",", "\"", "loopback_type", "\"", ":">> \o EncodeInt(lt) \o <<"}">>

DigitValue(c) == (CHOOSE d \in 1..10 : DigitChars[d] = c) - 1
IsDigit(c) == \E d \in 1..10 : DigitChars[d] = c

\* a run of digits starting at toks[i]: [val, next]
RECURSIVE DecodeDigits(_, _, _)
DecodeDigits(toks, i, acc) ==
    IF i <= Len(toks) /\ IsDigit(toks[i])
    THEN DecodeDigits(toks, i + 1, acc * 10 + DigitValue(toks[i]))
    ELSE [val |-> acc, next |-> i]

DecodeInt(toks, i) ==
    IF toks[i] = "-"
    THEN LET r == DecodeDigits(toks, i + 1, 0) IN [val |-> 0 - r.val, next |-> r.next]
    ELSE DecodeDigits(toks, i, 0)

\* the elements of a list whose "[" is at toks[i - 1]: [val, next]
RECURSIVE DecodeItems(_, _, _)
DecodeItems(toks, i, acc) ==
    IF toks[i] = "]" THEN [val |-> acc, next |-> i + 1]
    ELSE IF toks[i] = "," THEN DecodeItems(toks, i + 1, acc)
    ELSE DecodeItems(toks, i + 3, Append(acc, toks[i + 1]))

DecodeValue(toks, i) ==
    IF toks[i] = "[" THEN DecodeItems(toks, i + 1, <<>>) ELSE DecodeInt(toks, i)

\* the members of an object whose "{" is at toks[1]: [val, next], val a dict
RECURSIVE DecodeMembers(_, _, _)
DecodeMembers(toks, i, d) ==
    IF toks[i] = "}" THEN [val |-> d, next |-> i + 1]
    ELSE IF toks[i] = "," THEN DecodeMembers(toks, i + 1, d)
    ELSE LET key == toks[i + 1]
             v == DecodeValue(toks, i + 4)
         IN  DecodeMembers(toks, v.next, DictSet(d, key, v.val))

\* json.load(ports_file) raises on an empty file and on data after the object
json_load_raises(toks) ==
    \/ toks = <<>>
    \/ DecodeMembers(toks, 2, <<>>).next # Len(toks) + 1

\* json.load(ports_file): the dict of the object
json_load(toks) == DecodeMembers(toks, 2, <<>>).val

----------------------------------------------------------------------------
(* The run: main() and the MloopConfig methods it drives *)

\* all sequences over S of length lo..hi
SeqsOf(S, lo, hi) == UNION {[1..n -> S] : n \in lo..hi}

\* what argparse can hand to main(): --ports gives a non-empty list, --port-range
\* exactly two names, an option that is not given is None (here <<>>)
ListArgs ==
    [ports : SeqsOf(ListNames, 1, MaxPorts), port_range : {<<>>},
     loopback_type : LoopbackTypes]
RangeArgs ==
    [ports : {<<>>}, port_range : SeqsOf(RangeNames, 2, 2),
     loopback_type : LoopbackTypes]
RestoreArgs ==
    [ports : {<<>>}, port_range : {<<>>}, loopback_type : LoopbackTypes]
BothArgs ==
    [ports : SeqsOf(ListNames, 1, 1), port_range : SeqsOf(RangeNames, 2, 2),
     loopback_type : LoopbackTypes]
Args == ListArgs \cup RangeArgs \cup RestoreArgs \cup BothArgs

\* the branch main() takes at lines 194-204
Mode ==
    IF args.port_range # <<>> THEN "range"
    ELSE IF args.ports # <<>> THEN "list"
    ELSE "restore"

NoFile == [exists |-> FALSE, content |-> <<>>]
NoSave ==
    [exists |-> FALSE, ports |-> <<>>, loopback_type |-> 0, overwrote |-> FALSE,
     table |-> <<>>, calls |-> <<>>]
NoPort == [logical_port |-> None, configured |-> FALSE, retries |-> 0]
NoArgs == [ports |-> <<>>, port_range |-> <<>>, loopback_type |-> 0]

MsgBoth == "Error: must specify only one of the options - PORTS or PORT-RANGE"
MsgNotInit == "Error: switch not initialized"
MsgNoService == "Error: persistent_mloop.conf is not found"
MsgCopyFailed == "Error while copying persistent_mloop.conf"
MsgNoTable == "Failed to parse ports from SDK file"
MsgBadRange == "Invalid port range"
MsgEndFirst == "Error: invalid range - end port found before start port"
MsgNoEnd == "Error: invalid range - start doesn't exist"
MsgUnknown == "port doesn't exist"
MsgFailed == "Failed to config"
MsgNoSaved == "No port to configure"

Init ==
    /\ pc = "idle"
    /\ args = NoArgs
    /\ retries = 0
    /\ port_translation = <<>>
    /\ ports = <<>>
    /\ loopback_type = 0
    /\ queue = <<>>
    /\ idx = 1
    /\ cur = NoPort
    /\ dump_lines = <<>>
    /\ file = NoFile
    /\ out = {}
    /\ nQueries = 0
    /\ sawReady = FALSE
    /\ lbCalls = <<>>
    /\ txLog = <<>>
    /\ gaveUp = {}
    /\ examined = 0
    /\ fileAtStart = NoFile
    /\ writes = 0
    /\ lastSaved = NoSave

\* main without the check of lines 161-163: both options are let through
main_parse_args_unchecked ==
    /\ pc = "idle"
    /\ \E a \in Args :
        /\ args' = a
        /\ out' = {}
        /\ pc' = "check_switch"
    /\ retries' = 0
    /\ fileAtStart' = file
    /\ UNCHANGED <<port_translation, ports, loopback_type, queue, idx, cur,
                   dump_lines, file, nQueries, sawReady, lbCalls, txLog, gaveUp,
                   examined, writes, lastSaved>>

\* main, lines 154-163: a new process parses its arguments; giving both options
\* ends the run
main_parse_args ==
    /\ pc = "idle"
    /\ \E a \in Args :
        /\ args' = a
        /\ IF a.ports # <<>> /\ a.port_range # <<>>
           THEN /\ out' = {MsgBoth}
                /\ pc' = "done"
           ELSE /\ out' = {}
                /\ pc' = "check_switch"
    /\ retries' = 0
    /\ fileAtStart' = file
    /\ UNCHANGED <<port_translation, ports, loopback_type, queue, idx, cur,
                   dump_lines, file, nQueries, sawReady, lbCalls, txLog, gaveUp,
                   examined, writes, lastSaved>>

\* main, lines 165-173: one evaluation of the while condition, which queries the
\* switch first and looks at retries second, then the loop body or the loop exit
check_switch_init ==
    /\ pc = "check_switch"
    /\ \E ready \in BOOLEAN :
        /\ nQueries' = nQueries + 1
        /\ sawReady' = (sawReady \/ ready)
        /\ IF ~ready /\ retries < MAX_RETRIES
           THEN /\ retries' = retries + 1
                /\ out' = out
                /\ pc' = "check_switch"
           ELSE /\ retries' = retries
                /\ IF retries = MAX_RETRIES
                   THEN /\ out' = out \cup {MsgNotInit}
                        /\ pc' = "done"
                   ELSE /\ out' = out
                        /\ pc' = "service_file"
    /\ UNCHANGED <<args, port_translation, ports, loopback_type, queue, idx, cur,
                   dump_lines, file, lbCalls, txLog, gaveUp, examined,
                   fileAtStart, writes, lastSaved>>

\* main, lines 175-185: the service definition is installed, or copied from the
\* current directory (a failed copy is only reported), or missing.  Nothing
\* after line 171 reads retries: the count and the history of the readiness
\* loop are dropped once the loop's outcome has been acted on.
ServiceFileStates == {"installed", "copied", "copy_failed", "missing"}

install_service_file ==
    /\ pc = "service_file"
    /\ \E s \in ServiceFileStates :
        /\ pc' = IF s = "missing" THEN "done" ELSE "construct"
        /\ out' = out \cup (CASE s = "missing" -> {MsgNoService}
                              [] s = "copy_failed" -> {MsgCopyFailed}
                              [] OTHER -> {})
    /\ retries' = 0
    /\ nQueries' = 0
    /\ sawReady' = FALSE
    /\ UNCHANGED <<args, port_translation, ports, loopback_type, queue, idx, cur,
                   dump_lines, file, lbCalls, txLog, gaveUp, examined,
                   fileAtStart, writes, lastSaved>>

\* main without the test of lines 188-190: an empty table is let through
MloopConfig_init_unchecked ==
    /\ pc = "construct"
    /\ \E d \in Dumps :
        /\ dump_lines' = d
        /\ port_translation' = build_translation_dict(d)
        /\ out' = out
        /\ pc' = "dispatch"
    /\ ports' = <<>>
    /\ loopback_type' = args.loopback_type
    /\ UNCHANGED <<args, retries, queue, idx, cur, file, nQueries, sawReady,
                   lbCalls, txLog, gaveUp, examined, fileAtStart, writes, lastSaved>>

\* MloopConfig.__init__ with build_translation_dict, and main, lines 187-192
MloopConfig_init ==
    /\ pc = "construct"
    /\ \E d \in Dumps : \E t \in {build_translation_dict(d)} :
        /\ dump_lines' = d
        /\ port_translation' = t
        /\ IF t = <<>>
           THEN /\ out' = out \cup {MsgNoTable}
                /\ pc' = "done"
           ELSE /\ out' = out
                /\ pc' = "dispatch"
    /\ ports' = <<>>
    /\ loopback_type' = args.loopback_type
    /\ UNCHANGED <<args, retries, queue, idx, cur, file, nQueries, sawReady,
                   lbCalls, txLog, gaveUp, examined, fileAtStart, writes, lastSaved>>

\* config_range without the return of line 49: a failed resolution falls through
\* to the loop and to save_config
config_range_no_return ==
    /\ pc = "dispatch"
    /\ Mode = "range"
    /\ LET r == parse_range(port_translation, args.port_range)
       IN  /\ ports' = ports \o r.ports
           /\ examined' = r.examined
           /\ out' = out \cup (IF r.is_none THEN {MsgBadRange} ELSE {})
                         \cup (IF r.end_before_start THEN {MsgEndFirst} ELSE {})
                         \cup (IF r.found_first /\ ~r.found_last
                               THEN {MsgNoEnd} ELSE {})
           /\ queue' = IF r.is_none THEN <<>> ELSE r.logical_ports
           /\ pc' = "for_ports"
    /\ idx' = 1
    /\ UNCHANGED <<args, retries, port_translation, loopback_type, cur, dump_lines,
                   file, nQueries, sawReady, lbCalls, txLog, gaveUp, fileAtStart,
                   writes, lastSaved>>

\* config_range, lines 45-49: resolve the range; None ends the run
config_range ==
    /\ pc = "dispatch"
    /\ Mode = "range"
    /\ \E r \in {parse_range(port_translation, args.port_range)} :
           /\ ports' = ports \o r.ports
           /\ examined' = r.examined
           /\ IF r.is_none
              THEN /\ out' = out \cup {MsgBadRange}
                             \cup (IF r.end_before_start THEN {MsgEndFirst} ELSE {})
                             \cup (IF r.found_first /\ ~r.found_last
                                   THEN {MsgNoEnd} ELSE {})
                   /\ queue' = <<>>
                   /\ pc' = "done"
              ELSE /\ out' = out \cup (IF r.end_before_start THEN {MsgEndFirst} ELSE {})
                   /\ queue' = r.logical_ports
                   /\ pc' = "for_ports"
    /\ idx' = 1
    /\ UNCHANGED <<args, retries, port_translation, loopback_type, cur, dump_lines,
                   file, nQueries, sawReady, lbCalls, txLog, gaveUp, fileAtStart,
                   writes, lastSaved>>

\* config_ports(args.ports), lines 29-32: the requested list becomes self.ports
config_ports ==
    /\ pc = "dispatch"
    /\ Mode = "list"
    /\ ports' = args.ports
    /\ queue' = args.ports
    /\ idx' = 1
    /\ pc' = "for_ports"
    /\ UNCHANGED <<args, retries, port_translation, loopback_type, cur, dump_lines,
                   file, out, nQueries, sawReady, lbCalls, txLog, gaveUp,
                   examined, fileAtStart, writes, lastSaved>>

\* read_saved_config without the test of lines 136-137: open() of a file that
\* is not there raises
read_saved_config_unchecked ==
    /\ pc = "dispatch"
    /\ Mode = "restore"
    /\ IF ~file.exists \/ json_load_raises(file.content)
       THEN /\ pc' = "crashed"
            /\ UNCHANGED <<ports, loopback_type, queue, out>>
       ELSE LET saved_config == json_load(file.content)
            IN  /\ ports' = DictGet(saved_config, "ports")
                /\ loopback_type' = DictGet(saved_config, "loopback_type")
                /\ queue' = DictGet(saved_config, "ports")
                /\ pc' = "for_ports"
                /\ out' = out
    /\ idx' = 1
    /\ UNCHANGED <<args, retries, port_translation, cur, dump_lines, file,
                   nQueries, sawReady, lbCalls, txLog, gaveUp, examined,
                   fileAtStart, writes, lastSaved>>

\* read_saved_config without line 143: the loopback type of the command line
\* stays in place of the saved one
read_saved_config_keeps_type ==
    /\ pc = "dispatch"
    /\ Mode = "restore"
    /\ IF ~file.exists
       THEN /\ out' = out \cup {MsgNoSaved}
            /\ pc' = "done"
            /\ UNCHANGED <<ports, queue>>
       ELSE IF json_load_raises(file.content)
       THEN /\ pc' = "crashed"
            /\ UNCHANGED <<ports, queue, out>>
       ELSE LET saved_config == json_load(file.content)
            IN  /\ ports' = DictGet(saved_config, "ports")
                /\ queue' = DictGet(saved_config, "ports")
                /\ pc' = "for_ports"
                /\ out' = out
    /\ idx' = 1
    /\ UNCHANGED <<args, retries, port_translation, loopback_type, cur,
                   dump_lines, file, nQueries, sawReady, lbCalls, txLog, gaveUp,
                   examined, fileAtStart, writes, lastSaved>>

\* read_saved_config, and main, lines 200-204: no file ends the run, a file
\* json.load rejects ends it with an uncaught exception, otherwise ports and
\* loopback_type come from the file and config_ports() iterates them
read_saved_config ==
    /\ pc = "dispatch"
    /\ Mode = "restore"
    /\ IF ~file.exists
       THEN /\ out' = out \cup {MsgNoSaved}
            /\ pc' = "done"
            /\ UNCHANGED <<ports, loopback_type, queue>>
       ELSE IF json_load_raises(file.content)
       THEN /\ pc' = "crashed"
            /\ UNCHANGED <<ports, loopback_type, queue, out>>
       ELSE LET saved_config == json_load(file.content)
            IN  /\ ports' = DictGet(saved_config, "ports")
                /\ loopback_type' = DictGet(saved_config, "loopback_type")
                /\ queue' = DictGet(saved_config, "ports")
                /\ pc' = "for_ports"
                /\ out' = out
    /\ idx' = 1
    /\ UNCHANGED <<args, retries, port_translation, cur, dump_lines, file,
                   nQueries, sawReady, lbCalls, txLog, gaveUp, examined,
                   fileAtStart, writes, lastSaved>>

\* the logical port of the element the for loop is at: config_range iterates
\* logical ports, config_ports looks each name up
LogicalPortAt(i) ==
    IF Mode = "range" THEN queue[i] ELSE DictGet(port_translation, queue[i])

\* config_ports with break in place of continue at line 39: an unknown name
\* ends the loop
config_ports_skip_break ==
    /\ pc = "for_ports"
    /\ idx <= Len(queue)
    /\ LogicalPortAt(idx) = None
    /\ out' = out \cup {MsgUnknown}
    /\ idx' = Len(queue) + 1
    /\ UNCHANGED <<pc, args, retries, port_translation, ports, loopback_type,
                   queue, cur, dump_lines, file, nQueries, sawReady, lbCalls,
                   txLog, gaveUp, examined, fileAtStart, writes, lastSaved>>

\* config_ports, lines 37-39: a name that is not in the table is skipped
config_ports_skip ==
    /\ pc = "for_ports"
    /\ idx <= Len(queue)
    /\ LogicalPortAt(idx) = None
    /\ out' = out \cup {MsgUnknown}
    /\ idx' = idx + 1
    /\ UNCHANGED <<pc, args, retries, port_translation, ports, loopback_type,
                   queue, cur, dump_lines, file, nQueries, sawReady, lbCalls,
                   txLog, gaveUp, examined, fileAtStart, writes, lastSaved>>

\* config_port_to_mloop, lines 88-91: the set-loopback tool is run for the port
config_port_to_mloop ==
    /\ pc = "for_ports"
    /\ idx <= Len(queue)
    /\ LogicalPortAt(idx) # None
    /\ cur' = [logical_port |-> LogicalPortAt(idx), configured |-> FALSE,
               retries |-> 0]
    /\ lbCalls' = Append(lbCalls, <<LogicalPortAt(idx), loopback_type>>)
    /\ txLog' = <<>>
    /\ pc' = "tx_signal"
    /\ UNCHANGED <<args, retries, port_translation, ports, loopback_type, queue,
                   idx, dump_lines, file, out, nQueries, sawReady, gaveUp,
                   examined, fileAtStart, writes, lastSaved>>

\* the while loop with retries <= MAX_RETRIES at line 92: one attempt more
tx_signal_set_one_more ==
    /\ pc = "tx_signal"
    /\ ~cur.configured /\ cur.retries <= MAX_RETRIES
    /\ IF loopback_type # 0
       THEN \E ok \in BOOLEAN :
            /\ txLog' = Append(txLog, ok)
            /\ IF ok
               THEN /\ cur' = [cur EXCEPT !.configured = TRUE]
                    /\ out' = out
                    /\ gaveUp' = gaveUp
               ELSE /\ cur' = [cur EXCEPT !.retries = cur.retries + 1]
                    /\ out' = IF cur.retries + 1 < MAX_RETRIES THEN out
                               ELSE out \cup {MsgFailed}
                    /\ gaveUp' = IF cur.retries + 1 < MAX_RETRIES THEN gaveUp
                                 ELSE gaveUp \cup {Len(lbCalls)}
       ELSE /\ cur' = [cur EXCEPT !.configured = TRUE]
            /\ UNCHANGED <<txLog, out, gaveUp>>
    /\ IF cur'.configured \/ cur'.retries > MAX_RETRIES
       THEN /\ pc' = "for_ports"
            /\ idx' = idx + 1
       ELSE UNCHANGED <<pc, idx>>
    /\ UNCHANGED <<args, retries, port_translation, ports, loopback_type, queue,
                   dump_lines, file, nQueries, sawReady, lbCalls, examined,
                   fileAtStart, writes, lastSaved>>

\* the while loop without the test of line 94: the TX-signal tool is run for
\* every loopback type
tx_signal_set_any_type ==
    /\ pc = "tx_signal"
    /\ ~cur.configured /\ cur.retries < MAX_RETRIES
    /\ IF TRUE
       THEN \E ok \in BOOLEAN :
            /\ txLog' = Append(txLog, ok)
            /\ IF ok
               THEN /\ cur' = [cur EXCEPT !.configured = TRUE]
                    /\ out' = out
                    /\ gaveUp' = gaveUp
               ELSE /\ cur' = [cur EXCEPT !.retries = cur.retries + 1]
                    /\ out' = IF cur.retries + 1 < MAX_RETRIES THEN out
                               ELSE out \cup {MsgFailed}
                    /\ gaveUp' = IF cur.retries + 1 < MAX_RETRIES THEN gaveUp
                                 ELSE gaveUp \cup {Len(lbCalls)}
       ELSE /\ cur' = [cur EXCEPT !.configured = TRUE]
            /\ UNCHANGED <<txLog, out, gaveUp>>
    /\ IF cur'.configured \/ cur'.retries >= MAX_RETRIES
       THEN /\ pc' = "for_ports"
            /\ idx' = idx + 1
       ELSE UNCHANGED <<pc, idx>>
    /\ UNCHANGED <<args, retries, port_translation, ports, loopback_type, queue,
                   dump_lines, file, nQueries, sawReady, lbCalls, examined,
                   fileAtStart, writes, lastSaved>>

\* config_port_to_mloop, lines 92-104: one pass of the while loop; the TX-signal
\* tool is run only for a non-zero loopback type, a failure counts a retry and
\* sleeps
tx_signal_set ==
    /\ pc = "tx_signal"
    /\ ~cur.configured /\ cur.retries < MAX_RETRIES
    /\ IF loopback_type # 0
       THEN \E ok \in BOOLEAN :
            /\ txLog' = Append(txLog, ok)
            /\ IF ok
               THEN /\ cur' = [cur EXCEPT !.configured = TRUE]
                    /\ out' = out
                    /\ gaveUp' = gaveUp
               ELSE /\ cur' = [cur EXCEPT !.retries = cur.retries + 1]
                    /\ out' = IF cur.retries + 1 < MAX_RETRIES THEN out
                               ELSE out \cup {MsgFailed}
                    /\ gaveUp' = IF cur.retries + 1 < MAX_RETRIES THEN gaveUp
                                 ELSE gaveUp \cup {Len(lbCalls)}
       ELSE /\ cur' = [cur EXCEPT !.configured = TRUE]
            /\ UNCHANGED <<txLog, out, gaveUp>>
    /\ IF cur'.configured \/ cur'.retries >= MAX_RETRIES
       THEN /\ pc' = "for_ports"
            /\ idx' = idx + 1
       ELSE UNCHANGED <<pc, idx>>
    /\ UNCHANGED <<args, retries, port_translation, ports, loopback_type, queue,
                   dump_lines, file, nQueries, sawReady, lbCalls, examined,
                   fileAtStart, writes, lastSaved>>

\* the end of the for loop with save_config also called after a restore
config_done_always_saves ==
    /\ pc = "for_ports"
    /\ idx > Len(queue)
    /\ pc' = "save_config"
    /\ cur' = NoPort
    /\ txLog' = <<>>
    /\ UNCHANGED <<args, retries, port_translation, ports, loopback_type, queue,
                   idx, dump_lines, file, out, nQueries, sawReady, lbCalls,
                   gaveUp, examined, fileAtStart, writes, lastSaved>>

\* the end of the for loop with save_config left out when a port was given up
config_done_saves_on_success ==
    /\ pc = "for_ports"
    /\ idx > Len(queue)
    /\ pc' = IF Mode = "restore" \/ gaveUp # {} THEN "done" ELSE "save_config"
    /\ cur' = NoPort
    /\ txLog' = <<>>
    /\ UNCHANGED <<args, retries, port_translation, ports, loopback_type, queue,
                   idx, dump_lines, file, out, nQueries, sawReady, lbCalls,
                   gaveUp, examined, fileAtStart, writes, lastSaved>>

\* the end of the for loop: config_range and list mode go on to save_config,
\* the restore run is over.  The locals of the last config_port_to_mloop call
\* are gone, and the history of its TX-signal invocations with them.
config_done ==
    /\ pc = "for_ports"
    /\ idx > Len(queue)
    /\ pc' = IF Mode = "restore" THEN "done" ELSE "save_config"
    /\ cur' = NoPort
    /\ txLog' = <<>>
    /\ UNCHANGED <<args, retries, port_translation, ports, loopback_type, queue,
                   idx, dump_lines, file, out, nQueries, sawReady, lbCalls,
                   gaveUp, examined, fileAtStart, writes, lastSaved>>

\* save_config opening the file with 'a': the previous content is kept
save_config_open_append ==
    /\ pc = "save_config"
    /\ file' = [exists |-> TRUE, content |-> file.content]
    /\ pc' = "save_write"
    /\ UNCHANGED <<args, retries, port_translation, ports, loopback_type, queue,
                   idx, cur, dump_lines, out, nQueries, sawReady, lbCalls,
                   txLog, gaveUp, examined, fileAtStart, writes, lastSaved>>

\* save_config, lines 80-84: open(full_path, 'w') creates or truncates the file
save_config_open ==
    /\ pc = "save_config"
    /\ file' = [exists |-> TRUE, content |-> <<>>]
    /\ pc' = "save_write"
    /\ UNCHANGED <<args, retries, port_translation, ports, loopback_type, queue,
                   idx, cur, dump_lines, out, nQueries, sawReady, lbCalls,
                   txLog, gaveUp, examined, fileAtStart, writes, lastSaved>>

\* save_config, line 85: json.dump, flushed when the with block closes the file
save_config_write ==
    /\ pc = "save_write"
    /\ file' = [exists |-> TRUE,
                content |-> file.content \o json_dump(ports, loopback_type)]
    /\ writes' = writes + 1
    /\ pc' = "done"
    /\ UNCHANGED <<args, retries, port_translation, ports, loopback_type, queue,
                   idx, cur, dump_lines, out, nQueries, sawReady, lbCalls,
                   txLog, gaveUp, examined, fileAtStart>>
    /\ lastSaved' = [exists |-> TRUE, ports |-> ports,
                     loopback_type |-> loopback_type,
                     overwrote |-> fileAtStart.exists,
                     table |-> port_translation, calls |-> lbCalls]

\* the process is stopped inside the with block of save_config, lines 84-85,
\* after open has truncated the file and before the dump is flushed
save_config_interrupted ==
    /\ pc = "save_write"
    /\ pc' = "crashed"
    /\ lastSaved' = NoSave
    /\ UNCHANGED <<args, retries, port_translation, ports, loopback_type, queue,
                   idx, cur, dump_lines, file, out, nQueries, sawReady, lbCalls,
                   txLog, gaveUp, examined, fileAtStart, writes>>

\* main returns, or an uncaught exception ends it: the process is over and only
\* the state file outlives it
main_return ==
    /\ pc \in {"done", "crashed"}
    /\ pc' = "idle"
    /\ args' = NoArgs
    /\ retries' = 0
    /\ port_translation' = <<>>
    /\ ports' = <<>>
    /\ loopback_type' = 0
    /\ queue' = <<>>
    /\ idx' = 1
    /\ cur' = NoPort
    /\ dump_lines' = <<>>
    /\ out' = {}
    /\ nQueries' = 0
    /\ sawReady' = FALSE
    /\ lbCalls' = <<>>
    /\ txLog' = <<>>
    /\ gaveUp' = {}
    /\ examined' = 0
    /\ fileAtStart' = file
    /\ writes' = 0
    /\ UNCHANGED <<file, lastSaved>>

Next ==
    \/ main_parse_args
    \/ check_switch_init
    \/ install_service_file
    \/ MloopConfig_init
    \/ config_range
    \/ config_ports
    \/ read_saved_config
    \/ config_ports_skip
    \/ config_port_to_mloop
    \/ tx_signal_set
    \/ config_done
    \/ save_config_open
    \/ save_config_write
    \/ save_config_interrupted
    \/ main_return

Spec == Init /\ [][Next]_vars

\* the steps the running process takes by itself: every call of main returns,
\* and every collaborator it waits for answers
RunStep ==
    \/ check_switch_init
    \/ install_service_file
    \/ MloopConfig_init
    \/ config_range
    \/ config_ports
    \/ read_saved_config
    \/ config_ports_skip
    \/ config_port_to_mloop
    \/ tx_signal_set
    \/ config_done
    \/ save_config_open
    \/ save_config_write

\* the state files a run can find: none, one that an interrupted save left
\* empty, one that a list run saved
FilesAtStart ==
    {NoFile,
     [exists |-> TRUE, content |-> <<>>],
     [exists |-> TRUE, content |-> json_dump(<<"Ethernet12", "Ethernet99">>, 12)]}

\* the start of one process
RunInit ==
    /\ pc = "idle"
    /\ args = NoArgs
    /\ retries = 0
    /\ port_translation = <<>>
    /\ ports = <<>>
    /\ loopback_type = 0
    /\ queue = <<>>
    /\ idx = 1
    /\ cur = NoPort
    /\ dump_lines = <<>>
    /\ file \in FilesAtStart
    /\ out = {}
    /\ nQueries = 0
    /\ sawReady = FALSE
    /\ lbCalls = <<>>
    /\ txLog = <<>>
    /\ gaveUp = {}
    /\ examined = 0
    /\ fileAtStart = file
    /\ writes = 0
    /\ lastSaved = NoSave

\* one process from its start to its end
RunNext ==
    \/ main_parse_args
    \/ RunStep
    \/ save_config_interrupted

\* one run of the program by a process that is scheduled until it ends;
\* starting the run and stopping it are left to the environment
FairSpec == RunInit /\ [][RunNext]_vars /\ WF_vars(RunStep)

----------------------------------------------------------------------------
(* Vocabulary of the properties *)

\* position of a name in the table, 0 if it is not there
Pos(table, name) ==
    IF name \in DictKeys(table)
    THEN CHOOSE i \in 1..Len(table) : table[i][1] = name
    ELSE 0

\* the logical ids of the table entries at positions a..b
IdsBetween(table, a, b) == [i \in 1..(b - a + 1) |-> table[a + i - 1][2]]

\* the names of a sequence that are in the table, in order
KnownOf(table, names) == SelectSeq(names, LAMBDA n : n \in DictKeys(table))

\* the set-loopback invocations that configure the given names with type lt
CallsFor(table, names, lt) ==
    [i \in 1..Len(KnownOf(table, names)) |->
        <<table[Pos(table, KnownOf(table, names)[i])][2], lt>>]

\* config_range has resolved the range of this run
RangeResolved == Mode = "range" /\ examined > 0

RangeStart == args.port_range[1]
RangeEnd == args.port_range[2]

\* the "ports" array and the "loopback_type" of the persisted state file
FilePorts == DictGet(json_load(file.content), "ports")
FileLoopbackType == DictGet(json_load(file.content), "loopback_type")

\* the for loop has dealt with the elements before this index
Handled == IF pc = "tx_signal" THEN idx ELSE idx - 1

\* the run is at or past its configuration pass
InPass == pc \in {"for_ports", "tx_signal", "save_config", "save_write"}

\* a port has been handed to config_port_to_mloop and the method has returned
PortReturned == lbCalls # <<>> /\ pc = "for_ports"

----------------------------------------------------------------------------
(* Properties *)

\* C1: range resolution is inclusive on both ends: for start and end present in
\* the table with start at or before end (start = end included), the returned
\* logical ids are exactly those of the entries from start through end, in
\* table order, ending with end's id.
C1_RangeInclusive ==
    (/\ RangeResolved
     /\ Pos(port_translation, RangeStart) >= 1
     /\ Pos(port_translation, RangeStart) <= Pos(port_translation, RangeEnd))
    => /\ MsgBadRange \notin out
       /\ queue = IdsBetween(port_translation, Pos(port_translation, RangeStart),
                             Pos(port_translation, RangeEnd))

\* C2: the readiness query is made at most 10 times in a run, the run aborts
\* with "switch not initialized" only if every query reported not-ready, and a
\* query that reports ready lets the run go on to the setup steps.
C2_ReadinessBounded ==
    /\ nQueries <= MAX_RETRIES
    /\ (MsgNotInit \in out => ~sawReady)
    /\ (sawReady => pc = "service_file")

\* C3: in list mode the persisted "ports" array is exactly the requested names
\* that exist in the translation table, and holds no unknown name.
C3_PersistedKnownOnly ==
    (Mode = "list" /\ pc = "done" /\ writes = 1)
    => /\ FilePorts = KnownOf(port_translation, args.ports)
       /\ \A i \in 1..Len(FilePorts) : FilePorts[i] \in DictKeys(port_translation)

\* C4: in list mode the set-loopback tool is invoked exactly once for each
\* requested name that is in the table, with that name's logical id, in request
\* order, never for an absent name; known names after an unknown one are still
\* configured.
C4_ListSkipsUnknown ==
    (Mode = "list" /\ (InPass \/ (pc = "done" /\ writes = 1)))
    => lbCalls = CallsFor(port_translation, SubSeq(args.ports, 1, Handled),
                          args.loopback_type)

C4_Witness ==
    /\ Mode = "list" /\ pc = "done" /\ writes = 1
    /\ Len(args.ports) = 2
    /\ args.ports[1] \notin DictKeys(port_translation)
    /\ args.ports[2] \in DictKeys(port_translation)
    /\ Len(lbCalls) = 1

\* C5: for a non-zero loopback type each port gets one set-loopback invocation,
\* and the TX-signal tool is invoked until its first success or 10 failures:
\* k invocations if attempt k <= 10 is the first success, 10 if all fail; a
\* port that was given up does not stop the ports after it.
C5_TxSignalRetries ==
    (loopback_type # 0 /\ lbCalls # <<>>)
    => /\ Len(lbCalls) = Len(IF Mode = "range" THEN SubSeq(queue, 1, Handled)
                             ELSE KnownOf(port_translation, SubSeq(queue, 1, Handled)))
       /\ \A i \in 1..(Len(txLog) - 1) : ~txLog[i]
       /\ pc = "tx_signal" => /\ Len(txLog) < MAX_RETRIES
                              /\ \A i \in 1..Len(txLog) : ~txLog[i]
       /\ PortReturned => /\ Len(txLog) \in 1..MAX_RETRIES
                          /\ txLog[Len(txLog)] \/ Len(txLog) = MAX_RETRIES
       /\ pc \in {"save_config", "save_write", "done"} => Handled = Len(queue)

C5_Witness ==
    /\ pc = "for_ports" /\ idx > Len(queue)
    /\ loopback_type # 0
    /\ 1 \in gaveUp
    /\ Len(lbCalls) = 2
    /\ Len(txLog) = 3 /\ txLog[3]

\* C6: with loopback type 0 the TX-signal tool is never invoked and no retry or
\* delay happens: one set-loopback invocation and the port counts as configured.
C6_TypeZeroNoTxSignal ==
    (loopback_type = 0 /\ lbCalls # <<>>)
    => /\ txLog = <<>>
       /\ cur.retries = 0
       /\ gaveUp = {}
       /\ MsgFailed \notin out
       /\ PortReturned => cur.configured
       /\ Len(lbCalls) = Len(IF Mode = "range" THEN SubSeq(queue, 1, Handled)
                             ELSE KnownOf(port_translation, SubSeq(queue, 1, Handled)))

C6_Witness ==
    /\ pc = "for_ports" /\ idx > Len(queue)
    /\ loopback_type = 0
    /\ Len(lbCalls) = 2
    /\ cur.configured

\* C7: save_config(P, L) followed by read_saved_config reports a saved
\* configuration and leaves ports = P and loopback_type = L, whatever the file
\* held before the save.
C7_SaveLoadRoundTrip ==
    (Mode = "restore" /\ lastSaved.exists)
    => /\ MsgNoSaved \notin out
       /\ pc # "crashed"
       /\ pc \in {"for_ports", "tx_signal"}
            => /\ ports = lastSaved.ports
               /\ loopback_type = lastSaved.loopback_type

C7_Witness ==
    /\ Mode = "restore"
    /\ pc = "for_ports"
    /\ lastSaved.exists /\ lastSaved.overwrote
    /\ Len(ports) = 2
    /\ loopback_type = 12

\* C8: when range resolution fails the run ends with no set-loopback and no
\* TX-signal invocation, and the state file is as it was before the run.
C8_FailedRangeTouchesNothing ==
    (RangeResolved /\ MsgBadRange \in out)
    => /\ pc = "done"
       /\ lbCalls = <<>>
       /\ txLog = <<>>
       /\ writes = 0
       /\ file = fileAtStart

C8_Witness ==
    /\ RangeResolved /\ MsgBadRange \in out
    /\ ports # <<>>
    /\ file.exists

\* C9: range resolution returns no result when start is not in the table, when
\* start is there and end is not, and when end precedes start in table order.
C9_RangeFails ==
    (/\ RangeResolved
     /\ \/ Pos(port_translation, RangeStart) = 0
        \/ Pos(port_translation, RangeEnd) = 0
        \/ Pos(port_translation, RangeEnd) < Pos(port_translation, RangeStart))
    => /\ MsgBadRange \in out
       /\ queue = <<>>
       /\ pc = "done"

C9_Witness ==
    /\ RangeResolved
    /\ Pos(port_translation, RangeEnd) >= 1
    /\ Pos(port_translation, RangeEnd) < Pos(port_translation, RangeStart)
    /\ MsgBadRange \in out

\* C10: a run given both a port list and a port range ends at once: no
\* readiness query, no SDK dump and no table, no set-loopback or TX-signal
\* invocation, no write to the state file.
C10_BothOptionsAbort ==
    (args.ports # <<>> /\ args.port_range # <<>>)
    => /\ pc = "done"
       /\ MsgBoth \in out
       /\ nQueries = 0
       /\ dump_lines = <<>>
       /\ port_translation = <<>>
       /\ lbCalls = <<>>
       /\ txLog = <<>>
       /\ writes = 0
       /\ file = fileAtStart

C10_Witness ==
    /\ args.ports # <<>> /\ args.port_range # <<>>
    /\ pc = "done"
    /\ file.exists

\* the run has built its table and left the mode branch of main behind
PastDispatch == port_translation # <<>> /\ pc # "dispatch"

\* C11: restore mode with no saved state file reports "No port to configure",
\* makes no set-loopback and no TX-signal invocation, does not create the
\* state file, and ends normally.
C11_RestoreWithoutFile ==
    /\ (Mode = "restore" /\ ~fileAtStart.exists /\ PastDispatch)
       => /\ pc = "done"
          /\ MsgNoSaved \in out
          /\ lbCalls = <<>>
          /\ txLog = <<>>
          /\ writes = 0
          /\ ~file.exists
    /\ MsgNoSaved \in out => Mode = "restore" /\ ~fileAtStart.exists

C11_Witness ==
    /\ Mode = "restore"
    /\ PastDispatch
    /\ MsgNoSaved \in out
    /\ ~file.exists

\* the restore run has read a saved state file
Restored == Mode = "restore" /\ fileAtStart.exists /\ PastDispatch /\ pc # "crashed"

\* both markers are in the snapshot, the start marker first
WellMarked(text) ==
    /\ find(text, "netdev_dump") >= 0
    /\ find(text, "netdev_dump") < find(text, "cmd_ifc_dump")

\* C12 as stated: a restore run configures every port of the saved set, with the
\* loopback type of the file, and leaves the file as it was.  Taken on files
\* whose names were all configured by the run that saved them, and on restore
\* runs whose snapshot has both markers.
C12_RestoreConfiguresSavedSet ==
    (/\ Restored /\ pc = "done"
     /\ lastSaved.exists /\ Len(lastSaved.calls) = Len(lastSaved.ports)
     /\ WellMarked(dump_lines))
    => /\ lbCalls = [i \in 1..Len(FilePorts) |->
                        <<DictGet(port_translation, FilePorts[i]), FileLoopbackType>>]
       /\ file = fileAtStart

\* C12 as amended: a restore run configures the saved ports that are in the
\* translation table of the restoring run, in saved order, with the loopback
\* type of the file and not that of the command line, and never writes the
\* state file.
C12_RestoreConfiguresKnownSaved ==
    Restored
    => /\ lbCalls = CallsFor(port_translation, SubSeq(FilePorts, 1, Handled),
                             FileLoopbackType)
       /\ loopback_type = FileLoopbackType
       /\ pc \in {"for_ports", "tx_signal", "done"}
       /\ writes = 0
       /\ file = fileAtStart

C12_Witness ==
    /\ Restored /\ pc = "done"
    /\ args.loopback_type # FileLoopbackType
    /\ Len(FilePorts) = 2
    /\ Len(lbCalls) = 1

\* C13: an empty translation table and a missing service-definition file end
\* the run before any hardware mutation: no set-loopback and no TX-signal
\* invocation and no write to the state file, in every mode.
C13_SetupFailuresTerminal ==
    /\ (dump_lines # <<>> /\ port_translation = <<>>) => MsgNoTable \in out
    /\ (MsgNoTable \in out \/ MsgNoService \in out)
       => /\ pc = "done"
          /\ lbCalls = <<>>
          /\ txLog = <<>>
          /\ writes = 0
          /\ file = fileAtStart
    /\ MsgNoService \in out => dump_lines = <<>>

C13_Witness ==
    /\ MsgNoTable \in out
    /\ Mode = "list"
    /\ file.exists

\* C14: when the start marker, the end marker or both are not in the dump
\* snapshot, the translation table is empty and the run ends as a setup
\* failure.
C14_MissingMarkerEmptyTable ==
    (/\ dump_lines # <<>>
     /\ \/ find(dump_lines, "netdev_dump") < 0
        \/ find(dump_lines, "cmd_ifc_dump") < 0)
    => /\ port_translation = <<>>
       /\ MsgNoTable \in out
       /\ pc = "done"

\* the number of the line a token position is on
LineNo(text, k) == 1 + Cardinality({j \in 1..(k - 1) : text[j] = NL})

\* the lines of the snapshot up to the end marker
LinesToEnd(text) == split_lines(SubSeq(text, 1, find(text, "cmd_ifc_dump")))

\* the number of the first line after the four lines of the section header that
\* the start marker opens
FirstRowNo(text) == LineNo(text, find(text, "netdev_dump") + 1) + 4

\* the numbers of the well-formed rows: lines of at least 3 fields from the
\* given line on
RowNos(lines, first) == {i \in first..Len(lines) : Len(lines[i]) >= 3}

\* the last of the given rows with the given name in column 2
LastRowOf(lines, rows, name) ==
    lines[CHOOSE i \in rows :
            /\ lines[i][2] = name
            /\ \A j \in rows : lines[j][2] = name => j <= i]

\* the sort key of a port name: the number after "Ethernet", 0 for other names
SortKey(name) == IF name \in DOMAIN EthernetSuffix THEN EthernetSuffix[name] ELSE 0

\* C15: for a snapshot with both markers the table maps exactly the column-2
\* values of the well-formed rows of the marked section after its first four
\* lines, each to the column-3 value of the last such row, and the table is in
\* non-decreasing order of the sort key.
C15_TableFromSection ==
    (dump_lines # <<>> /\ WellMarked(dump_lines))
    => LET lines == LinesToEnd(dump_lines)
           rows == RowNos(lines, FirstRowNo(dump_lines))
       IN  /\ DictKeys(port_translation) = {lines[i][2] : i \in rows}
           /\ Len(port_translation) = Cardinality(DictKeys(port_translation))
           /\ \A k \in 1..Len(port_translation) :
                port_translation[k][2]
                    = LastRowOf(lines, rows, port_translation[k][1])[3]
           /\ \A k \in 1..(Len(port_translation) - 1) :
                SortKey(port_translation[k][1]) <= SortKey(port_translation[k + 1][1])

C15_Witness ==
    /\ pc = "dispatch"
    /\ dump_lines = DumpUnsorted
    /\ Len(port_translation) = 4

\* a sequence holds no element twice
NoDuplicates(seq) == \A i, j \in 1..Len(seq) : seq[i] = seq[j] => i = j

\* C16: the configured port set is unique by name: neither self.ports nor the
\* "ports" array of the state file holds a name twice, and no port gets more
\* than one set-loopback invocation in a run.
C16_UniquePorts ==
    /\ NoDuplicates(ports)
    /\ (file.exists /\ ~json_load_raises(file.content)) => NoDuplicates(FilePorts)
    /\ NoDuplicates([i \in 1..Len(lbCalls) |-> lbCalls[i][1]])

\* C17: the save is atomic: at every point the state file is absent or a
\* complete snapshot, the one of before the run or the one being saved.
C17_AtomicSave ==
    file.exists
    => /\ ~json_load_raises(file.content)
       /\ \/ file = fileAtStart
          \/ file.content = json_dump(ports, loopback_type)

\* the scan meets the end name before it has seen the start name
EndMetFirst ==
    /\ RangeResolved
    /\ Pos(port_translation, RangeEnd) >= 1
    /\ \/ Pos(port_translation, RangeStart) = 0
       \/ Pos(port_translation, RangeEnd) < Pos(port_translation, RangeStart)

\* C18 as stated: after the end name was met before the start name the scan
\* goes on, and a start name later in the table is reached and examined.
C18_ScanGoesOn ==
    (EndMetFirst /\ Pos(port_translation, RangeStart) >= 1)
    => /\ MsgEndFirst \in out
       /\ examined >= Pos(port_translation, RangeStart)

\* C18 as amended: when the scan meets the end name before it has seen the
\* start name, it reports the invalid-range diagnostic and stops at that entry:
\* no later entry is examined, nothing is collected and the resolution fails.
C18_ScanStopsAtEnd ==
    EndMetFirst
    => /\ MsgEndFirst \in out
       /\ examined = Pos(port_translation, RangeEnd)
       /\ ports = <<>>
       /\ MsgBadRange \in out

C18_Witness ==
    /\ EndMetFirst
    /\ Pos(port_translation, RangeStart) = Len(port_translation)
    /\ examined = 2

\* C19: with the translation table unchanged, a restore run that follows a
\* successful list or range run issues the set-loopback invocations the
\* declaring run issued, same logical ports, same order, same loopback type,
\* whatever loopback type the restore run was given.
C19_ReplayEquivalence ==
    (Restored /\ lastSaved.exists /\ lastSaved.table = port_translation)
    => /\ Len(lbCalls) <= Len(lastSaved.calls)
       /\ lbCalls = SubSeq(lastSaved.calls, 1, Len(lbCalls))
       /\ pc = "done" => lbCalls = lastSaved.calls

C19_Witness ==
    /\ Restored
    /\ pc = "done"
    /\ lastSaved.exists
    /\ lastSaved.table = port_translation
    /\ args.loopback_type # lastSaved.loopback_type
    /\ Len(lbCalls) = 2

\* a run is under way
Running == pc \notin {"idle", "done", "crashed"}

\* the run is over: main returned or the process died
Ended == pc \in {"done", "crashed"}

\* a list or range run whose configuration pass was carried out
Declared ==
    /\ pc = "done"
    /\ Mode \in {"list", "range"}
    /\ port_translation # <<>>
    /\ out \cap {MsgBoth, MsgBadRange} = {}

\* C20: every run reaches its end, with at most 10 TX-signal invocations for a
\* port; a list run and a successful range run have written the state file
\* exactly once when they end, ports given up or not, and the write is the last
\* step: no hardware invocation follows it.
C20_TerminatesAndPersists ==
    /\ [](Len(txLog) <= MAX_RETRIES)
    /\ [](writes <= 1)
    /\ [](Declared => /\ writes = 1
                      /\ file.content = json_dump(ports, loopback_type))
    /\ [](writes = 1 => pc = "done")
    /\ [][writes' = writes + 1
            => /\ idx > Len(queue)
               /\ lbCalls' = lbCalls
               /\ txLog' = txLog
               /\ pc' = "done"]_vars
    /\ (Running ~> Ended)

C20_Witness ==
    /\ Declared
    /\ writes = 1
    /\ gaveUp # {}
    /\ Len(lbCalls) = 2

====
